---- MODULE Spec2Model ----
(***************************************************************************)
(* Model of src/implicit/_implicit.pyx: least_squares (solve_direct),      *)
(* least_squares_cg (solve_cg) and calculate_loss (compute_loss), each run *)
(* by a team of OpenMP workers over a guided prange.                       *)
(*                                                                         *)
(* Numbers.  A floating value is modelled by an exact rational <<n, d>>    *)
(* in lowest terms (d > 0), or by one of two special values:               *)
(*   NaN = <<0, 0>>  any non-finite IEEE value (x/0, 0/0 and what follows) *)
(*   Irr = <<1, 0>>  a finite value the model does not write down: a square *)
(*                   root that is no rational, or a rational too long for   *)
(*                   the integers of the model                              *)
(* so that a solve, a conjugate-gradient step and the loss are computed    *)
(* exactly and two results can be compared.                                *)
(***************************************************************************)
EXTENDS Integers, Sequences, FiniteSets, TLC

\* ------------------------------------------------------------- bounds
NumUsers == 2
NumItems == 2
MaxWorkers == 2
MaxNnz == 2
MaxConf == 2
MaxY == 1
MaxX == 1
MaxReg == 1

\* cg_steps = 3, the default of least_squares_cg
DefaultCgSteps == 3

\* factors = X.shape[1]: the factor width.  posv and gesv below are written
\* out for this width.
factors == 2

Users == 0 .. NumUsers - 1
Items == 0 .. NumItems - 1
Workers == 1 .. MaxWorkers
Dim == 0 .. factors - 1

\* ------------------------------------------------------------ numbers
NaN == <<0, 0>>
Irr == <<1, 0>>
Zero == <<0, 1>>
One == <<1, 1>>

IAbs(n) == IF n < 0 THEN -n ELSE n

RECURSIVE GCD(_, _)
GCD(a, c) == IF c = 0 THEN a ELSE GCD(c, a % c)

Rat(n, d) ==
    LET g == GCD(IAbs(n), IAbs(d))
        s == IF d < 0 THEN -1 ELSE 1
    IN  <<(s * n) \div g, (s * d) \div g>>

Int2R(n) == <<n, 1>>
IsNaN(x) == x = NaN
IsIrr(x) == x = Irr
Finite(x) == x[2] > 0
IsZero(x) == Finite(x) /\ x[1] = 0

\* The product a * b is within 2^30, so that it and a sum of two such are
\* integers the model computes with.
Fits(a, c) == c = 0 \/ IAbs(a) <= 1073741823 \div IAbs(c)

\* The special value of an operation one of whose operands is special.
Special(x, y) == IF IsNaN(x) \/ IsNaN(y) THEN NaN ELSE Irr

\* Sums and products cancel common factors before they multiply.
RAdd(x, y) ==
    IF Finite(x) /\ Finite(y)
    THEN LET g == GCD(x[2], y[2])
             dx == x[2] \div g
             dy == y[2] \div g
         IN  IF Fits(x[1], dy) /\ Fits(y[1], dx) /\ Fits(dx, y[2])
             THEN Rat(x[1] * dy + y[1] * dx, dx * y[2])
             ELSE Irr
    ELSE Special(x, y)

RNeg(x) == IF Finite(x) THEN <<-x[1], x[2]>> ELSE x

RSub(x, y) == RAdd(x, RNeg(y))

RMul(x, y) ==
    IF Finite(x) /\ Finite(y)
    THEN LET g == GCD(IAbs(x[1]), y[2])
             h == GCD(IAbs(y[1]), x[2])
             nx == x[1] \div g
             ny == y[1] \div h
             dx == x[2] \div h
             dy == y[2] \div g
         IN  IF Fits(nx, ny) /\ Fits(dx, dy) THEN Rat(nx * ny, dx * dy) ELSE Irr
    ELSE IF IsNaN(x) \/ IsNaN(y) THEN NaN
    ELSE IF IsZero(x) \/ IsZero(y) THEN Zero
    ELSE Irr

RDiv(x, y) ==
    IF IsNaN(x) \/ IsNaN(y) \/ IsZero(y) THEN NaN
    ELSE IF Finite(x) /\ Finite(y) THEN RMul(x, Rat(y[2], y[1]))
    ELSE IF IsZero(x) THEN Zero
    ELSE Irr

RAbs(x) == IF Finite(x) /\ x[1] < 0 THEN <<-x[1], x[2]>> ELSE x

\* x > y as the hardware decides it: false when an operand is no number.
RGreater(x, y) ==
    /\ Finite(x) /\ Finite(y)
    /\ Fits(x[1], y[2]) /\ Fits(y[1], x[2])
    /\ x[1] * y[2] > y[1] * x[2]

IsSquare(n) == \E k \in 0 .. n : k * k = n
ISqrt(n) == CHOOSE k \in 0 .. n : k * k = n

RSqrt(x) ==
    IF ~Finite(x) THEN x
    ELSE IF x[1] < 0 THEN NaN
    ELSE IF /\ x[1] <= 32768 /\ x[2] <= 32768
            /\ IsSquare(x[1]) /\ IsSquare(x[2])
         THEN <<ISqrt(x[1]), ISqrt(x[2])>>
    ELSE Irr

\* ------------------------------------------------------ vectors, BLAS
ZeroVec == [k \in Dim |-> Zero]
JunkVec == [k \in Dim |-> NaN]
JunkMat == [j \in Dim |-> JunkVec]

RECURSIVE SumTo(_, _)
\* f[0] + ... + f[n-1], added in index order
SumTo(f, n) == IF n = 0 THEN Zero ELSE RAdd(SumTo(f, n - 1), f[n - 1])

\* dy := dy + da * dx
axpy(da, dx, dy) == [k \in Dim |-> RAdd(dy[k], RMul(da, dx[k]))]

dot(sx, sy) == SumTo([k \in Dim |-> RMul(sx[k], sy[k])], factors)

\* sx := sa * sx
scal(sa, sx) == [k \in Dim |-> RMul(sa, sx[k])]

\* The element (i, j) that a Fortran routine sees in a row-major buffer.
Af(a, i, j) == a[j][i]

\* symv("U", n, alpha, a, x, beta = 0, y): y := alpha * a * x, reading only the
\* upper triangle of the matrix the routine sees.
symv(alpha, a, x) ==
    [i \in Dim |->
        RMul(alpha,
             SumTo([j \in Dim |->
                       RMul(IF i <= j THEN Af(a, i, j) ELSE Af(a, j, i), x[j])],
                   factors))]


\* -------------------------------------------------------------- state
VARIABLES
    op,                \* which entry point runs: "direct", "cg" or "loss"
    indptr, indices, data,      \* Cui, compressed rows
    X, Y, regularization, cg_steps,
    YtY, initialA, initialB,    \* computed before the parallel block
    pc,                \* position of each worker
    held,              \* scratch buffers a worker holds (malloc'ed, not freed)
    frees,             \* times each worker ran its free() calls
    lo, hi,            \* the worker's chunk of the prange: lo .. hi - 1 left
    u,                 \* the worker's loop variable
    A, b,              \* scratch of least_squares
    err,               \* info of the last solver call
    p, r, Ap, rsold, it,        \* scratch and locals of least_squares_cg
    loss, total_confidence, item_norm, user_norm,   \* reduction copies
    nextUser, nextItem,         \* first index of each prange not yet handed out
    why,               \* an exception is pending in the parallel block
    exc,               \* the pending exception: <<>> or <<err, u>>
    outcome,           \* "running", "returned" or "raised"
    result,            \* what the call returned or raised
    X0,                \* X as the caller passed it
    handed,            \* times each user index was handed to a worker
    owner              \* the worker each user index was handed to (0: none)

inputs == <<op, indptr, indices, data, Y, regularization, cg_steps, X0>>
shared == <<YtY, initialA, initialB>>
direct == <<A, b, err>>
cg == <<p, r, Ap, rsold, it>>
sums == <<loss, total_confidence, item_norm, user_norm>>
sched == <<lo, hi, u, nextUser, nextItem, handed, owner>>
fail == <<why, exc>>
vars == <<inputs, shared, X, pc, held, frees, direct, cg, sums, sched, fail,
          outcome, result>>

nnz == indptr[NumUsers]
Row(v) == indptr[v] .. indptr[v + 1] - 1

\* ------------------------------------------------- before the workers
\* numpy.dot(numpy.transpose(Y), Y)
Gram(y) == [j \in Dim |-> [k \in Dim |->
               SumTo([i \in Items |-> RMul(y[i][j], y[i][k])], NumItems)]]

\* m + reg * numpy.eye(factors)
AddReg(m, reg) == [j \in Dim |-> [k \in Dim |->
                     IF j = k THEN RAdd(m[j][k], reg) ELSE m[j][k]]]

\* ------------------------------------------- NormalEquationsBuilder
\* memcpyA left out: the scratch keeps what the last solve left in it.
memcpyA_stale(stale) == stale

\* memcpy(A, &initialA[0, 0], ...): the scratch takes the base matrix whatever
\* it held.
memcpyA(stale) == initialA

\* memcpyB left out.
memcpyB_stale(stale) == stale

\* memcpy(b, &initialB[0], ...)
memcpyB(stale) == initialB

RECURSIVE AccumB(_, _, _)
\* for index in range(from, to): b += confidence * Y[i]
AccumB(bb, from, to) ==
    IF from >= to THEN bb
    ELSE AccumB(axpy(data[from], Y[indices[from]], bb), from + 1, to)

RECURSIVE RankOne(_, _, _, _)
\* for j in range(jj, factors): A[j] += ((confidence - 1) * Y[i, j]) * Y[i]
RankOne(aa, i, confidence, jj) ==
    IF jj >= factors THEN aa
    ELSE LET temp == RMul(RSub(confidence, One), Y[i][jj])
         IN  RankOne([aa EXCEPT ![jj] = axpy(temp, Y[i], aa[jj])],
                     i, confidence, jj + 1)

RECURSIVE AccumA(_, _, _)
AccumA(aa, from, to) ==
    IF from >= to THEN aa
    ELSE AccumA(RankOne(aa, indices[from], data[from], 0), from + 1, to)

\* ---------------------------------------------------------- solvers
\* The pivot test of the Cholesky factorization: not positive, or no number.
NotPositive(x) == IsNaN(x) \/ (Finite(x) /\ x[1] <= 0)

\* posv("U", n, 1, a, n, b, n, info) for n = factors.  The routine sees the
\* transpose of the row-major buffer and works on its upper triangle:
\* a[0][0], a[1][0], a[1][1].  Column by column, it stores the pivot it
\* computed and stops at the first one that is not positive; b is solved for
\* only when the factorization succeeded.
posv(a, bb) ==
    LET a11 == Af(a, 0, 0)
        a12 == Af(a, 0, 1)
        a22 == Af(a, 1, 1)
    IN  IF NotPositive(a11)
        THEN [info |-> 1, a |-> a, b |-> bb]
        ELSE
          LET u11 == RSqrt(a11)
              u12 == RDiv(a12, u11)
              ajj == RSub(a22, RDiv(RMul(a12, a12), a11))
              a1 == [a EXCEPT ![0][0] = u11, ![1][0] = u12]
          IN  IF NotPositive(ajj)
              THEN [info |-> 2, a |-> [a1 EXCEPT ![1][1] = ajj], b |-> bb]
              ELSE
                LET x2 == RDiv(RSub(bb[1], RDiv(RMul(a12, bb[0]), a11)), ajj)
                    x1 == RDiv(RSub(bb[0], RMul(a12, x2)), a11)
                IN  [info |-> 0,
                     a |-> [a1 EXCEPT ![1][1] = RSqrt(ajj)],
                     b |-> [k \in Dim |-> IF k = 0 THEN x1 ELSE x2]]

\* gesv(n, 1, a, n, pivot, b, n, info) for n = factors: LU with partial
\* pivoting of the matrix the routine sees (the transpose of the row-major
\* buffer), info = i when U(i, i) is exactly zero, and b solved for only when
\* info = 0.
gesv(a, bb) ==
    LET m11 == Af(a, 0, 0)
        m21 == Af(a, 1, 0)
        m12 == Af(a, 0, 1)
        m22 == Af(a, 1, 1)
        swap == RGreater(RAbs(m21), RAbs(m11))
        p11 == IF swap THEN m21 ELSE m11
        p21 == IF swap THEN m11 ELSE m21
        p12 == IF swap THEN m22 ELSE m12
        p22 == IF swap THEN m12 ELSE m22
        b1 == IF swap THEN bb[1] ELSE bb[0]
        b2 == IF swap THEN bb[0] ELSE bb[1]
        l21 == IF IsZero(p11) THEN p21 ELSE RDiv(p21, p11)
        u22 == IF IsZero(p11) THEN p22 ELSE RSub(p22, RMul(l21, p12))
        info == IF IsZero(p11) THEN 1 ELSE IF IsZero(u22) THEN 2 ELSE 0
        lu == [j \in Dim |-> [i \in Dim |->
                 IF i = 0 /\ j = 0 THEN p11
                 ELSE IF i = 1 /\ j = 0 THEN l21
                 ELSE IF i = 0 /\ j = 1 THEN p12
                 ELSE u22]]
        y2 == RSub(b2, RMul(l21, b1))
        x2 == RDiv(y2, u22)
        x1 == RDiv(RSub(b1, RMul(p12, x2)), p11)
    IN  [info |-> info, a |-> lu,
         b |-> IF info = 0 THEN [k \in Dim |-> IF k = 0 THEN x1 ELSE x2] ELSE bb]


\* ---------------------------------------------------------------- Init
RegVals == {Int2R(k) : k \in 0 .. MaxReg}
YVals == {Int2R(k) : k \in 0 .. MaxY}
XVals == {Int2R(k) : k \in 0 .. MaxX}
\* Stored confidences: 1 + alpha * count for a count >= 1, so above 1.
ConfVals == {Int2R(k) : k \in 2 .. MaxConf}
\* cg_steps: a negative count, none, and the default
CgStepVals == {-1, 0, DefaultCgSteps}
\* The buffers a worker of each entry point mallocs.
Buffers(o) == IF o = "direct" THEN {"A", "b", "pivot"}
              ELSE IF o = "cg" THEN {"Ap", "p", "r"} ELSE {"r"}

\* Freed with free(pivot) forgotten.
Freed_noPivot(o) == IF o = "direct" THEN {"A", "b"}
                    ELSE IF o = "cg" THEN {"p", "r", "Ap"} ELSE {"r"}

\* The buffers the finally block of each entry point frees.
Freed(o) == IF o = "direct" THEN {"A", "b", "pivot"}
            ELSE IF o = "cg" THEN {"p", "r", "Ap"} ELSE {"r"}

\* Row pointers of a compressed-row matrix whose rows have the lengths len.
RECURSIVE PtrOf(_, _)
PtrOf(len, v) == IF v = 0 THEN 0 ELSE PtrOf(len, v - 1) + len[v - 1]

\* The matrix a failed posv leaves behind is written with rationals.
Exact ==
    \A v \in Users :
        LET s == posv(AccumA(initialA, indptr[v], indptr[v + 1]),
                      AccumB(initialB, indptr[v], indptr[v + 1]))
        IN  s.info # 0 => \A j, k \in Dim : ~IsIrr(s.a[j][k])

Init ==
    /\ op \in {"direct", "cg", "loss"}
    /\ \E len \in [Users -> 0 .. MaxNnz] :
          /\ PtrOf(len, NumUsers) <= MaxNnz
          /\ indptr = [v \in 0 .. NumUsers |-> PtrOf(len, v)]
    /\ indices \in [0 .. indptr[NumUsers] - 1 -> Items]
    /\ data \in [0 .. indptr[NumUsers] - 1 -> ConfVals]
    /\ Y \in [Items -> [Dim -> YVals]]
    /\ \E x \in XVals : X = [v \in Users |-> [k \in Dim |-> IF k = 0 THEN x ELSE Zero]]
    /\ X0 = X
    /\ regularization \in RegVals
    /\ cg_steps \in (IF op = "cg" THEN CgStepVals ELSE {DefaultCgSteps})
    /\ YtY = IF op = "cg" THEN AddReg(Gram(Y), regularization) ELSE Gram(Y)
    /\ initialA = IF op = "direct" THEN AddReg(YtY, regularization) ELSE JunkMat
    /\ initialB = IF op = "direct" THEN ZeroVec ELSE JunkVec
    /\ op = "direct" => Exact
    /\ pc = [w \in Workers |-> "start"]
    /\ held = [w \in Workers |-> {}]
    /\ frees = [w \in Workers |-> 0]
    /\ lo = [w \in Workers |-> 0]
    /\ hi = [w \in Workers |-> 0]
    /\ u = [w \in Workers |-> 0]
    /\ A = [w \in Workers |-> JunkMat]
    /\ b = [w \in Workers |-> JunkVec]
    /\ err = [w \in Workers |-> 0]
    /\ p = [w \in Workers |-> JunkVec]
    /\ r = [w \in Workers |-> JunkVec]
    /\ Ap = [w \in Workers |-> JunkVec]
    /\ rsold = [w \in Workers |-> NaN]
    /\ it = [w \in Workers |-> 0]
    /\ loss = [w \in Workers |-> Zero]
    /\ total_confidence = [w \in Workers |-> Zero]
    /\ item_norm = [w \in Workers |-> Zero]
    /\ user_norm = [w \in Workers |-> Zero]
    /\ nextUser = 0
    /\ nextItem = 0
    /\ why = FALSE
    /\ exc = <<>>
    /\ outcome = "running"
    /\ result = <<>>
    /\ handed = [v \in Users |-> 0]
    /\ owner = [v \in Users |-> 0]

\* ------------------------------------------------------------ scheduler
\* Slot with the buffers allocated once, before the parallel block, and shared
\* by the team.
Slot_shared(w) == 1

\* A, b, pivot (p, r, Ap) are assigned inside the parallel block: each worker
\* has buffers of its own.
Slot(w) == w

\* with nogil, parallel(): each worker allocates its scratch.
Alloc(w) ==
    /\ pc[w] = "start"
    /\ held' = [held EXCEPT ![w] = Buffers(op)]
    /\ pc' = [pc EXCEPT ![w] = "loop"]
    /\ UNCHANGED <<inputs, shared, X, frees, direct, cg, sums, sched, fail,
                   outcome, result>>

\* Chunk starting one index early: the last index of the previous chunk is
\* handed out again.
Chunk_overlap(first, k) ==
    [lo |-> IF first > 0 THEN first - 1 ELSE first, hi |-> first + k]

\* The chunk a worker takes when the first index not handed out is first and
\* the runtime gives it k indices: first .. first + k - 1.
Chunk(first, k) == [lo |-> first, hi |-> first + k]

\* prange(users, schedule='guided'): a worker out of work takes the next chunk,
\* of a size the runtime chooses.
Grab(w) ==
    /\ pc[w] = "loop"
    /\ lo[w] = hi[w]
    /\ nextUser < NumUsers
    /\ \E k \in 1 .. NumUsers - nextUser :
          LET c == Chunk(nextUser, k)
          IN  /\ lo' = [lo EXCEPT ![w] = c.lo]
              /\ hi' = [hi EXCEPT ![w] = c.hi]
              /\ nextUser' = c.hi
              /\ handed' = [v \in Users |->
                              IF v \in c.lo .. c.hi - 1 THEN handed[v] + 1
                              ELSE handed[v]]
              /\ owner' = [v \in Users |->
                             IF v \in c.lo .. c.hi - 1 THEN w ELSE owner[v]]
    /\ UNCHANGED <<inputs, shared, X, pc, held, frees, direct, cg, sums, u,
                   nextItem, fail, outcome, result>>

\* An iteration that starts while an exception is pending does not run the
\* loop body.
Skip(w) ==
    /\ pc[w] = "loop"
    /\ lo[w] < hi[w]
    /\ why
    /\ u' = [u EXCEPT ![w] = lo[w]]
    /\ lo' = [lo EXCEPT ![w] = lo[w] + 1]
    /\ UNCHANGED <<inputs, shared, X, pc, held, frees, direct, cg, sums, hi,
                   nextUser, nextItem, handed, owner, fail, outcome, result>>

\* The barrier that ends the users' prange: every worker of the team has come
\* to the loop and none has an iteration of it left.
UsersDone ==
    /\ nextUser = NumUsers
    /\ \A w \in Workers : \/ pc[w] = "loop" /\ lo[w] = hi[w]
                          \/ pc[w] \in {"items", "done"}

\* The barrier that ends the items' prange of calculate_loss.
ItemsDone ==
    /\ nextItem = NumItems
    /\ \A w \in Workers : \/ pc[w] = "items" /\ lo[w] = hi[w]
                          \/ pc[w] = "done"

\* The users' prange of calculate_loss is over: on to the items' prange.
EndUsers(w) ==
    /\ op = "loss"
    /\ pc[w] = "loop"
    /\ UsersDone
    /\ pc' = [pc EXCEPT ![w] = "items"]
    /\ UNCHANGED <<inputs, shared, X, held, frees, direct, cg, sums, sched,
                   fail, outcome, result>>

\* The last prange of the try block is over for the worker.
LoopsDone(w) ==
    \/ op # "loss" /\ pc[w] = "loop" /\ UsersDone
    \/ op = "loss" /\ pc[w] = "items" /\ ItemsDone

\* finally: free(...) of every buffer of the worker, on leaving the try block.
Free(w) ==
    /\ LoopsDone(w)
    /\ held' = [held EXCEPT ![w] = held[w] \ Freed(op)]
    /\ frees' = [frees EXCEPT ![w] = frees[w] + 1]
    /\ pc' = [pc EXCEPT ![w] = "done"]
    /\ UNCHANGED <<inputs, shared, X, direct, cg, sums, sched, fail, outcome,
                   result>>

\* ------------------------------------------------------- least_squares
\* Lines 80-95: the scratch is reset and the user's system accumulated.
Build(w) ==
    /\ op = "direct"
    /\ pc[w] = "loop"
    /\ lo[w] < hi[w]
    /\ ~why
    /\ LET v == lo[w]
       IN  /\ u' = [u EXCEPT ![w] = v]
           /\ A' = [A EXCEPT ![Slot(w)] = AccumA(memcpyA(A[Slot(w)]), indptr[v], indptr[v + 1])]
           /\ b' = [b EXCEPT ![Slot(w)] = AccumB(memcpyB(b[Slot(w)]), indptr[v], indptr[v + 1])]
    /\ lo' = [lo EXCEPT ![w] = lo[w] + 1]
    /\ pc' = [pc EXCEPT ![w] = "posv"]
    /\ UNCHANGED <<inputs, shared, X, held, frees, err, cg, sums, hi, nextUser,
                   nextItem, handed, owner, fail, outcome, result>>

\* Line 97, and the test of line 100.
Posv(w) ==
    /\ pc[w] = "posv"
    /\ \E s \in {posv(A[Slot(w)], b[Slot(w)])} :
           /\ A' = [A EXCEPT ![Slot(w)] = s.a]
           /\ b' = [b EXCEPT ![Slot(w)] = s.b]
           /\ err' = [err EXCEPT ![w] = s.info]
           /\ pc' = [pc EXCEPT ![w] = IF s.info # 0 THEN "gesv" ELSE "store"]
    /\ UNCHANGED <<inputs, shared, X, held, frees, cg, sums, sched, fail,
                   outcome, result>>

\* Line 101: the fallback, on the scratch as posv left it.
Gesv(w) ==
    /\ pc[w] = "gesv"
    /\ \E s \in {gesv(A[Slot(w)], b[Slot(w)])} :
           /\ A' = [A EXCEPT ![Slot(w)] = s.a]
           /\ b' = [b EXCEPT ![Slot(w)] = s.b]
           /\ err' = [err EXCEPT ![w] = s.info]
    /\ pc' = [pc EXCEPT ![w] = "store"]
    /\ UNCHANGED <<inputs, shared, X, held, frees, cg, sums, sched, fail,
                   outcome, result>>

\* Solved with the status never looked at.
Solved_always(e) == TRUE

\* if not err
Solved(e) == e = 0

\* Lines 103-104: memcpy(&X[u, 0], b, ...)
Store(w) ==
    /\ pc[w] = "store"
    /\ Solved(err[w])
    /\ X' = [X EXCEPT ![u[w]] = b[Slot(w)]]
    /\ pc' = [pc EXCEPT ![w] = "loop"]
    /\ UNCHANGED <<inputs, shared, held, frees, direct, cg, sums, sched, fail,
                   outcome, result>>

\* Lines 106-108: raise ValueError("Singular matrix (err=%i) on row %i").  The
\* first exception raised in the block is the one kept.
Raise(w) ==
    /\ pc[w] = "store"
    /\ ~Solved(err[w])
    /\ exc' = IF exc = <<>> THEN <<err[w], u[w]>> ELSE exc
    /\ why' = TRUE
    /\ pc' = [pc EXCEPT ![w] = "loop"]
    /\ UNCHANGED <<inputs, shared, X, held, frees, direct, cg, sums, sched,
                   outcome, result>>


\* ---------------------------------------------------- least_squares_cg
RECURSIVE ResidualAcc(_, _, _, _)
\* Lines 149-153: for each stored entry of the row,
\* r += (confidence - (confidence - 1) * (Y[i] . x)) * Y[i]
ResidualAcc(rr, x, from, to) ==
    IF from >= to THEN rr
    ELSE LET i == indices[from]
             confidence == data[from]
             temp == RSub(confidence,
                          RMul(RSub(confidence, One), dot(Y[i], x)))
         IN  ResidualAcc(axpy(temp, Y[i], rr), x, from + 1, to)

RECURSIVE ApAcc(_, _, _, _)
\* Lines 163-167: Ap += ((confidence - 1) * (Y[i] . p)) * Y[i]
ApAcc(ap, pp, from, to) ==
    IF from >= to THEN ap
    ELSE LET i == indices[from]
             temp == RMul(RSub(data[from], One), dot(Y[i], pp))
         IN  ApAcc(axpy(temp, Y[i], ap), pp, from + 1, to)

\* CgContinue of a loop that tests after its body: one iteration at least.
CgContinue_doWhile(i) == i = 0 \/ i < cg_steps

\* for it in range(cg_steps): the loop runs while it < cg_steps.
CgContinue(i) == i < cg_steps

\* Lines 145-156 for user v and the row x: r, p = r and rsold = r . r.
CgStart(v, x) ==
    LET r0 == ResidualAcc(symv(RNeg(One), YtY, x), x, indptr[v], indptr[v + 1])
    IN  [r |-> r0, p |-> r0, rsold |-> dot(r0, r0)]

\* Lines 159-187, one iteration for user v on the row x and the scratch st.
CgIter(v, x, st) ==
    LET ap == ApAcc(symv(One, YtY, st.p), st.p, indptr[v], indptr[v + 1])
        alpha == RDiv(st.rsold, dot(st.p, ap))
        x1 == axpy(alpha, st.p, x)
        r1 == axpy(RMul(alpha, RNeg(One)), ap, st.r)
        rsnew == dot(r1, r1)
        p1 == axpy(One, r1, scal(RDiv(rsnew, st.rsold), st.p))
    IN  [x |-> x1, r |-> r1, p |-> p1, rsold |-> rsnew, Ap |-> ap]

\* Lines 143-156: x = &X[u, 0], the residual, p and rsold.
Residual(w) ==
    /\ op = "cg"
    /\ pc[w] = "loop"
    /\ lo[w] < hi[w]
    /\ ~why
    /\ \E s \in {CgStart(lo[w], X[lo[w]])} :
           /\ u' = [u EXCEPT ![w] = lo[w]]
           /\ r' = [r EXCEPT ![Slot(w)] = s.r]
           /\ p' = [p EXCEPT ![Slot(w)] = s.p]
           /\ rsold' = [rsold EXCEPT ![w] = s.rsold]
    /\ it' = [it EXCEPT ![w] = 0]
    /\ lo' = [lo EXCEPT ![w] = lo[w] + 1]
    /\ pc' = [pc EXCEPT ![w] = IF CgContinue(0) THEN "cg" ELSE "loop"]
    /\ UNCHANGED <<inputs, shared, X, held, frees, direct, Ap, sums, hi,
                   nextUser, nextItem, handed, owner, fail, outcome, result>>

\* Lines 158-187: one iteration, writing the row of X in place; after the last
\* one the worker is back at the prange.
CgStep(w) ==
    /\ pc[w] = "cg"
    /\ \E s \in {CgIter(u[w], X[u[w]], [r |-> r[Slot(w)], p |-> p[Slot(w)],
                                       rsold |-> rsold[w]])} :
           /\ Ap' = [Ap EXCEPT ![Slot(w)] = s.Ap]
           /\ X' = [X EXCEPT ![u[w]] = s.x]
           /\ r' = [r EXCEPT ![Slot(w)] = s.r]
           /\ p' = [p EXCEPT ![Slot(w)] = s.p]
           /\ rsold' = [rsold EXCEPT ![w] = s.rsold]
    /\ it' = [it EXCEPT ![w] = it[w] + 1]
    /\ pc' = [pc EXCEPT ![w] = IF CgContinue(it[w] + 1) THEN "cg" ELSE "loop"]
    /\ UNCHANGED <<inputs, shared, held, frees, direct, sums, sched, fail,
                   outcome, result>>

\* ------------------------------------------------------ calculate_loss
RECURSIVE LossAcc_noConstant(_, _, _, _)
\* LossAcc without line 227, loss += confidence.
LossAcc_noConstant(acc, x, from, to) ==
    IF from >= to THEN acc
    ELSE LET i == indices[from]
             confidence == data[from]
             temp == RSub(RMul(RSub(confidence, One), dot(Y[i], x)),
                          RMul(Int2R(2), confidence))
         IN  LossAcc_noConstant(
                 [r |-> axpy(temp, Y[i], acc.r),
                  total_confidence |-> RAdd(acc.total_confidence, confidence),
                  loss |-> acc.loss],
                 x, from + 1, to)

RECURSIVE LossAcc(_, _, _, _)
\* Lines 219-227 for the stored entries from .. to - 1 of a row, on the record
\* [r, total_confidence, loss].
LossAcc(acc, x, from, to) ==
    IF from >= to THEN acc
    ELSE LET i == indices[from]
             confidence == data[from]
             temp == RSub(RMul(RSub(confidence, One), dot(Y[i], x)),
                          RMul(Int2R(2), confidence))
         IN  LossAcc([r |-> axpy(temp, Y[i], acc.r),
                      total_confidence |-> RAdd(acc.total_confidence, confidence),
                      loss |-> RAdd(acc.loss, confidence)],
                     x, from + 1, to)

\* Lines 216-230: one user of the first prange.
LossUser(w) ==
    /\ op = "loss"
    /\ pc[w] = "loop"
    /\ lo[w] < hi[w]
    /\ ~why
    /\ \E v \in {lo[w]} :
       \E acc \in {LossAcc([r |-> symv(One, YtY, X[v]),
                            total_confidence |-> total_confidence[w],
                            loss |-> loss[w]],
                           X[v], indptr[v], indptr[v + 1])} :
           /\ u' = [u EXCEPT ![w] = v]
           /\ r' = [r EXCEPT ![Slot(w)] = acc.r]
           /\ total_confidence' = [total_confidence EXCEPT ![w] = acc.total_confidence]
           /\ loss' = [loss EXCEPT ![w] = RAdd(acc.loss, dot(acc.r, X[v]))]
           /\ user_norm' = [user_norm EXCEPT ![w] = RAdd(user_norm[w], dot(X[v], X[v]))]
    /\ lo' = [lo EXCEPT ![w] = lo[w] + 1]
    /\ UNCHANGED <<inputs, shared, X, pc, held, frees, direct, p, Ap, rsold, it,
                   item_norm, hi, nextUser, nextItem, handed, owner, fail,
                   outcome, result>>

\* for i in prange(items, schedule='guided'): a chunk of the second prange.
GrabItems(w) ==
    /\ pc[w] = "items"
    /\ lo[w] = hi[w]
    /\ nextItem < NumItems
    /\ \E k \in 1 .. NumItems - nextItem :
          LET c == Chunk(nextItem, k)
          IN  /\ lo' = [lo EXCEPT ![w] = c.lo]
              /\ hi' = [hi EXCEPT ![w] = c.hi]
              /\ nextItem' = c.hi
    /\ UNCHANGED <<inputs, shared, X, pc, held, frees, direct, cg, sums, u,
                   nextUser, handed, owner, fail, outcome, result>>

\* Line 233: item_norm += Y[i] . Y[i]
LossItem(w) ==
    /\ pc[w] = "items"
    /\ lo[w] < hi[w]
    /\ item_norm' = [item_norm EXCEPT ![w] = RAdd(item_norm[w], dot(Y[lo[w]], Y[lo[w]]))]
    /\ lo' = [lo EXCEPT ![w] = lo[w] + 1]
    /\ UNCHANGED <<inputs, shared, X, pc, held, frees, direct, cg, loss,
                   total_confidence, user_norm, hi, u, nextUser, nextItem,
                   handed, owner, fail, outcome, result>>

RECURSIVE Reduce(_, _)
\* The reduction of a worker-private sum over workers 1 .. n.
Reduce(f, n) == IF n = 0 THEN Zero ELSE RAdd(Reduce(f, n - 1), f[n])

\* What the numerator of line 238 holds beside the regularization term.
LossTerms == Reduce(loss, MaxWorkers)

\* Lines 238-239.
LossValue ==
    RDiv(RAdd(LossTerms,
              RMul(regularization,
                   RAdd(Reduce(item_norm, MaxWorkers), Reduce(user_norm, MaxWorkers)))),
         RSub(RAdd(Reduce(total_confidence, MaxWorkers), Int2R(NumUsers * NumItems)),
              Int2R(nnz)))

\* ------------------------------------------------- the end of the call
\* The parallel block is left when every worker is through; a pending exception
\* is raised to the caller, otherwise the call returns.
Join ==
    /\ outcome = "running"
    /\ \A w \in Workers : pc[w] = "done"
    /\ outcome' = IF exc # <<>> THEN "raised" ELSE "returned"
    /\ result' = IF exc # <<>> THEN exc
                 ELSE IF op = "loss" THEN LossValue ELSE <<>>
    /\ UNCHANGED <<inputs, shared, X, pc, held, frees, direct, cg, sums, sched,
                   fail>>

Next ==
    \/ \E w \in Workers :
          \/ Alloc(w) \/ Grab(w) \/ Skip(w) \/ EndUsers(w) \/ Free(w)
          \/ Build(w) \/ Posv(w) \/ Gesv(w) \/ Store(w) \/ Raise(w)
          \/ Residual(w) \/ CgStep(w)
          \/ LossUser(w) \/ GrabItems(w) \/ LossItem(w)
    \/ Join

Spec == Init /\ [][Next]_vars


\* One entry point at a time.
InitDirect == Init /\ op = "direct"
InitCg == Init /\ op = "cg"
InitLoss == Init /\ op = "loss"

NextDirect ==
    \/ \E w \in Workers :
          \/ Alloc(w) \/ Grab(w) \/ Skip(w) \/ Free(w)
          \/ Build(w) \/ Posv(w) \/ Gesv(w) \/ Store(w) \/ Raise(w)
    \/ Join

NextCg ==
    \/ \E w \in Workers :
          \/ Alloc(w) \/ Grab(w) \/ Free(w) \/ Residual(w) \/ CgStep(w)
    \/ Join

NextLoss ==
    \/ \E w \in Workers :
          \/ Alloc(w) \/ Grab(w) \/ EndUsers(w) \/ Free(w)
          \/ LossUser(w) \/ GrabItems(w) \/ LossItem(w)
    \/ Join

SpecDirect == InitDirect /\ [][NextDirect]_vars
SpecCg == InitCg /\ [][NextCg]_vars
SpecLoss == InitLoss /\ [][NextLoss]_vars

\* ------------------------------------------- what the claims refer to
RECURSIVE Sigma(_, _, _)
\* f[from] + (f[from + 1] + ... + f[to - 1])
Sigma(f, from, to) ==
    IF from >= to THEN Zero ELSE RAdd(f[from], Sigma(f, from + 1, to))

\* (Yt Y)[j][k]
GramAt(j, k) == Sigma([i \in Items |-> RMul(Y[i][j], Y[i][k])], 0, NumItems)

\* A = (YtY + lambda I) + sum of (c - 1) y_i y_i^t over the stored entries of
\* row v, entry by entry.
NormalA(v) ==
    [j \in Dim |-> [k \in Dim |->
        RAdd(RAdd(GramAt(j, k), IF j = k THEN regularization ELSE Zero),
             Sigma([n \in Row(v) |->
                      RMul(RSub(data[n], One),
                           RMul(Y[indices[n]][j], Y[indices[n]][k]))],
                   indptr[v], indptr[v + 1]))]]

\* b = sum of c y_i over the stored entries of row v.
NormalB(v) ==
    [k \in Dim |->
        Sigma([n \in Row(v) |-> RMul(data[n], Y[indices[n]][k])],
              indptr[v], indptr[v + 1])]

\* The status the direct solve of user v ends with: that of posv, or of gesv
\* when posv reported a failure.
FailCode(v) ==
    LET s1 == posv(NormalA(v), NormalB(v))
    IN  IF s1.info # 0 THEN gesv(s1.a, s1.b).info ELSE 0

\* The solution of A x = b for user v (A positive definite).
Solution(v) == posv(NormalA(v), NormalB(v)).b

RECURSIVE SeqDirect(_, _, _, _)
\* least_squares by one worker: users v, v + 1, ... in order on one scratch.
SeqDirect(x, a, bb, v) ==
    IF v = NumUsers THEN x
    ELSE LET a0 == AccumA(memcpyA(a), indptr[v], indptr[v + 1])
             b0 == AccumB(memcpyB(bb), indptr[v], indptr[v + 1])
             s1 == posv(a0, b0)
             s2 == IF s1.info # 0 THEN gesv(s1.a, s1.b) ELSE s1
         IN  SeqDirect(IF Solved(s2.info) THEN [x EXCEPT ![v] = s2.b] ELSE x,
                       s2.a, s2.b, v + 1)

RECURSIVE CgLoop(_, _, _, _)
CgLoop(v, x, st, i) ==
    IF ~CgContinue(i) THEN x
    ELSE LET s == CgIter(v, x, st) IN CgLoop(v, s.x, s, i + 1)

RECURSIVE SeqCg(_, _)
\* least_squares_cg by one worker.
SeqCg(x, v) ==
    IF v = NumUsers THEN x
    ELSE SeqCg([x EXCEPT ![v] = CgLoop(v, x[v], CgStart(v, x[v]), 0)], v + 1)

\* X after the call with one worker.
SeqX == IF op = "direct" THEN SeqDirect(X0, JunkMat, JunkVec, 0) ELSE SeqCg(X0, 0)

\* Every number of X, of the conjugate-gradient scratch and of the sums is
\* written down exactly, or is NaN: Irr occurs only in what a solver leaves in
\* its scratch matrix.
IsExact(x) == IsNaN(x) \/ Finite(x)
ExactNumbers ==
    /\ \A v \in Users, k \in Dim : IsExact(X[v][k])
    /\ \A w \in Workers :
          /\ \A k \in Dim : /\ IsExact(b[w][k]) /\ IsExact(p[w][k])
                            /\ IsExact(r[w][k]) /\ IsExact(Ap[w][k])
          /\ IsExact(rsold[w]) /\ IsExact(loss[w])
          /\ IsExact(total_confidence[w])
          /\ IsExact(item_norm[w]) /\ IsExact(user_norm[w])
          /\ pc[w] = "posv" => \A j, k \in Dim : IsExact(A[w][j][k])
    /\ outcome = "returned" /\ op = "loss" => IsExact(result)

\* ---------------------------------------------------------------- C1
\* C1: a worker frees its scratch exactly once, whatever way its loop ended,
\* and when the call returns or raises no worker holds a buffer: every worker
\* has freed all it allocated.
C1_ScratchReleased ==
    /\ \A w \in Workers :
          /\ frees[w] <= 1
          /\ held[w] # {} => held[w] = Buffers(op) /\ frees[w] = 0
          /\ frees[w] = 1 => pc[w] = "done" /\ held[w] = {}
          /\ pc[w] = "done" => frees[w] = 1
    /\ outcome # "running" => \A w \in Workers : held[w] = {} /\ frees[w] = 1

\* A call that raised, with every worker's scratch freed.
C1_Witness ==
    /\ outcome = "raised"
    /\ \A w \in Workers : frees[w] = 1 /\ held[w] = {}

\* ---------------------------------------------------------------- C2
\* C2: every user index is handed to at most one worker, and to exactly one
\* by the end of the call; a row of X changes only in a step of the worker
\* the row was handed to, while that worker is on that user; Y, the Gram
\* matrix, the base system and the confidence matrix never change.
C2_RowOwnership ==
    [][ /\ \A v \in Users : handed'[v] <= 1
        /\ \A v \in Users :
              X'[v] # X[v] =>
                 \E w \in Workers :
                    /\ owner[v] = w /\ u[w] = v
                    /\ pc[w] \in {"store", "cg"}
                    /\ pc'[w] # pc[w] \/ it'[w] # it[w]
        /\ UNCHANGED <<Y, YtY, initialA, initialB, indptr, indices, data>>
        /\ outcome' # "running" => \A v \in Users : handed'[v] = 1
      ]_vars

\* A solve that returned with the two rows written by different workers.
C2_Witness ==
    /\ op \in {"direct", "cg"}
    /\ outcome = "returned"
    /\ owner[0] # owner[1]
    /\ \A v \in Users : X[v] # X0[v]

DotS(x, y) == Sigma([k \in Dim |-> RMul(x[k], y[k])], 0, factors)

\* r_u = YtY x_u + sum over the stored entries of row v of
\* ((c - 1) (y_i . x_u) - 2 c) y_i
UserR(v) ==
    [k \in Dim |->
        RAdd(Sigma([j \in Dim |-> RMul(GramAt(k, j), X[v][j])], 0, factors),
             Sigma([n \in Row(v) |->
                      RMul(RSub(RMul(RSub(data[n], One), DotS(Y[indices[n]], X[v])),
                                RMul(Int2R(2), data[n])),
                           Y[indices[n]][k])],
                   indptr[v], indptr[v + 1]))]

UserTerms == Sigma([v \in Users |-> DotS(UserR(v), X[v])], 0, NumUsers)
Norms == RAdd(Sigma([v \in Users |-> DotS(X[v], X[v])], 0, NumUsers),
              Sigma([i \in Items |-> DotS(Y[i], Y[i])], 0, NumItems))
TotalConfidence == Sigma([n \in 0 .. nnz - 1 |-> data[n]], 0, nnz)
Denominator == RSub(RAdd(TotalConfidence, Int2R(NumUsers * NumItems)), Int2R(nnz))

\* C5 as stated: the loss is (sum of r_u . x_u + lambda (|X|^2 + |Y|^2)) over
\* (total_confidence + users * items - nnz), with no other term in the
\* numerator.
C5_Original ==
    (op = "loss" /\ outcome = "returned") =>
        result = RDiv(RAdd(UserTerms, RMul(regularization, Norms)), Denominator)

\* C5, amended: the numerator holds the sum of the stored confidences as well.
C5_LossValue ==
    (op = "loss" /\ outcome = "returned") =>
        result = RDiv(RAdd(RAdd(UserTerms, TotalConfidence),
                           RMul(regularization, Norms)),
                      Denominator)

\* A loss over stored entries and a non-zero X, the users summed by different
\* workers.
C5_Witness ==
    /\ op = "loss" /\ outcome = "returned"
    /\ nnz = MaxNnz
    /\ owner[0] # owner[1]
    /\ X[0] # ZeroVec
    /\ Finite(result) /\ result # Zero

\* ---------------------------------------------------------------- C6
\* C6: with regularization > 0, least_squares returns, and the row of every
\* user without stored entries is then the zero vector.
C6_EmptyRowZero ==
    (op = "direct" /\ outcome # "running" /\ RGreater(regularization, Zero)) =>
        /\ outcome = "returned"
        /\ \A v \in Users : Row(v) = {} => X[v] = ZeroVec

\* A user without entries, whose row was not zero, solved by the worker that
\* had just solved a user with entries.
C6_Witness ==
    /\ op = "direct" /\ outcome = "returned"
    /\ RGreater(regularization, Zero)
    /\ Row(0) # {} /\ Row(1) = {}
    /\ owner[0] = owner[1]
    /\ X[0] # ZeroVec
    /\ X0[1] # ZeroVec /\ X[1] = ZeroVec

\* ---------------------------------------------------------------- C7
\* C7 as stated: least_squares_cg with more iterations than factors leaves in
\* every row the solution of A x = b (regularization > 0, so A is positive
\* definite and the direct solve is the Cholesky solve).
C7_CgReachesSolution ==
    (op = "cg" /\ outcome = "returned" /\ cg_steps > factors
        /\ RGreater(regularization, Zero)) =>
        \A v \in Users : X[v] = Solution(v)

\* ---------------------------------------------------------------- C8
\* C8 as stated: a call with cg_steps <= 0 ends raising an error, X untouched.
C8_Original ==
    (op = "cg" /\ cg_steps <= 0 /\ outcome # "running") =>
        outcome = "raised" /\ X = X0

\* C8, amended: a call with cg_steps <= 0 never writes X and returns normally.
C8_NoIterations ==
    (op = "cg" /\ cg_steps <= 0) =>
        /\ X = X0
        /\ outcome # "raised"
        /\ \A w \in Workers : pc[w] # "cg"

\* A call with a negative cg_steps that returned, its users on two workers.
C8_Witness ==
    /\ op = "cg" /\ cg_steps < 0
    /\ outcome = "returned"
    /\ owner[0] # owner[1]
    /\ X = X0

\* ---------------------------------------------------------------- C9
\* C9 as stated: gesv is called only after posv reported a failure, and on the
\* A and b the builder produced for the user.
C9_FallbackSameSystem ==
    \A w \in Workers :
        pc[w] = "gesv" =>
            /\ err[w] # 0
            /\ A[w] = NormalA(u[w])
            /\ b[w] = NormalB(u[w])

\* --------------------------------------------------------------- C10
\* C10: when posv is called for user u the worker's scratch holds
\* A = (YtY + lambda I) + sum (c - 1) y_i y_i^t and b = sum c y_i over the
\* stored entries of the row, whatever the scratch held before.
C10_SystemAtSolve ==
    \A w \in Workers :
        pc[w] = "posv" => A[w] = NormalA(u[w]) /\ b[w] = NormalB(u[w])

\* posv about to be called on a row that stores one item twice, on the scratch
\* the worker's previous solve left.
C10_Witness ==
    \E w \in Workers :
        /\ pc[w] = "posv" /\ u[w] = 1 /\ owner[0] = w
        /\ indptr[2] - indptr[1] = 2
        /\ indices[indptr[1]] = indices[indptr[1] + 1]
        /\ A[w] # initialA

====
